---- MODULE Spec2Model ----
(***************************************************************************)
(* The machine actions worker (src/worker/machineactions/worker.go): a     *)
(* strings-watcher handler whose SetUp cancels the actions the facade      *)
(* reports as running and opens the subscription, and whose Handle         *)
(* fetches, begins, dispatches and finishes an action of a delivered       *)
(* batch.  The facade (the API server) is the environment: it keeps the    *)
(* status of every action and each of its calls may fail.  The worker may  *)
(* die at any point and is started again by its supervisor.                *)
(***************************************************************************)
EXTENDS Integers, Sequences, FiniteSets, TLC

VARIABLES
    pc,         \* the worker's position: config, notvalid, new, cancel, active, fetch, begin, run, wait, finish, terminated, crashed, stopped
    status,     \* the facade's record: status of every action
    calls,      \* the calls this worker run has made (facade calls and the HandleAction callback), in order
    hstart,     \* Len(calls) when the current (or last) Handle invocation was entered
    batch,      \* actionsSlice of the current (or last) Handle invocation
    ractions,   \* SetUp: the tags RunningActions returned
    ridx,       \* SetUp: position of the range loop over ractions
    hres,       \* Handle: results returned by config.HandleAction
    herr,       \* Handle: err returned by config.HandleAction ("nil" or its text)
    lastRet,    \* what the last Handle invocation returned: none (not returned), nil, err
    nbatches,   \* batches delivered so far
    faults,     \* facade failures so far
    crashes,    \* worker deaths so far
    config,     \* WorkerConfig: which of Facade, AgentTag, HandleAction are set (not nil)
    aname,      \* the facade's record: name of every action
    ex,         \* the command executor: commands run so far, timer goroutines, cancel channels, the command in flight
    dying,      \* whether the worker has been asked to stop, and where it was then (inside which Handle invocation)
    unit        \* a deployer Unit: its tag, and what Name returned once called

vars == <<pc, status, calls, hstart, batch, ractions, ridx,
          hres, herr, lastRet, nbatches, faults, crashes, config, aname, ex, dying, unit>>

----------------------------------------------------------------------------
\* Bounds of the model.
MaxBatchLen == 2
MaxBatches == 2
MaxFaults == 2
MaxCrashes == 1

\* Identifiers the stream may deliver; "bad" is syntactically invalid.
ValidIds == {"a1", "a2"}
InvalidIds == {"bad"}
Ids == ValidIds \cup InvalidIds

\* What a configured handler may return.
ResultMaps == {"m0", "m1"}
ErrTexts == {"e1", "e2"}
Nil == "nil"

\* params.ActionCompleted / params.ActionCancelled, and the facade's other states.
ActionCompleted == "completed"
ActionCancelled == "cancelled"
ActionPending == "enqueued"
ActionRunning == "running"

\* names.IsValidAction
IsValidAction(id) == id \in ValidIds

\* actions.JujuRunActionName, and the names an action record may have.
JujuRunActionName == "juju-run"
Names == {JujuRunActionName, "custom-noop"}

\* The name of an action record (action.Name()).
ActionName(id) == aname[id]

\* A tag as the facade reports it, and names.ParseActionTag on it.
TagOf(id) == <<"action", id>>
ParseOk(tag) == tag[1] = "action" /\ IsValidAction(tag[2])
TagId(tag) == tag[2]

\* One entry of the call log: who called (SetUp or Handle), the call, its arguments,
\* whether it succeeded, and the number of the batch being handled (0 in SetUp).
Call(at, op, id, st, res, msg, ok) ==
    [at |-> at, op |-> op, id |-> id, st |-> st, res |-> res, msg |-> msg, ok |-> ok,
     nb |-> IF at = "Handle" THEN nbatches ELSE 0]

\* Every ordering of a finite set, as sequences without repetition.
Perms(S) ==
    {s \in [1..Cardinality(S) -> S] : \A i, j \in 1..Cardinality(S) : i # j => s[i] # s[j]}

\* A tag the facade may report that names.ParseActionTag rejects.
GarbageTag == TagOf("bad")

\* Facade.RunningActions: the facade's in-flight view, which may hold an entry whose tag does not parse.
RunningTags == {TagOf(id) : id \in {a \in ValidIds : status[a] = ActionRunning}}
RunningReports == Perms(RunningTags) \cup Perms(RunningTags \cup {GarbageTag})

\* A facade call may fail while the fault budget lasts.
CanFail == faults < MaxFaults

\* The facade holds a record for exactly the well-formed identifiers.
HasRecord(id) == id \in ValidIds

\* Every batch the stream may deliver.
Batches == UNION {[1..n -> Ids] : n \in 0..MaxBatchLen}

\* What config.HandleAction may return: <<results, err>>.
HandlerOutcomes ==
    {<<m, Nil>> : m \in ResultMaps} \cup {<<"m1", e>> : e \in ErrTexts}

\* The executor before any command: no command run, no timer goroutine, no cancel channel.
\* Commands are numbered 1, 2, ... in the order runCommandWithTimeout is called;
\* closes[n] counts the close(cancel) of command n's channel, wch is the channel
\* WaitWithCancel selects on (0: the nil channel).
\* Nobody has asked the worker to stop.
NotDying == [at |-> "none", nb |-> 0]

\* A Unit nobody has asked for its name; tags and names are sequences of characters.
UnitIdle == [tag |-> <<>>, name |-> <<>>, called |-> FALSE]

CmdIds == 1..Cardinality(ValidIds)
ExIdle ==
    [ncmd |-> 0, chans |-> {}, timers |-> {}, closes |-> [n \in CmdIds |-> 0],
     param |-> [kind |-> "absent", halves |-> 0], timeout |-> 0,
     cmd |-> "none", code |-> 0, longer |-> FALSE,
     wch |-> 0, res |-> Nil, err |-> Nil]

----------------------------------------------------------------------------
Init ==
    /\ pc = "new"
    /\ status = [id \in ValidIds |-> ActionPending]
    /\ calls = <<>>
    /\ hstart = 0
    /\ batch = <<>>
    /\ ractions = <<>>
    /\ ridx = 1
    /\ hres = Nil
    /\ herr = Nil
    /\ lastRet = "none"
    /\ nbatches = 0
    /\ faults = 0
    /\ crashes = 0
    /\ config = [Facade |-> TRUE, AgentTag |-> TRUE, HandleAction |-> TRUE]
    /\ aname = [id \in ValidIds |-> IF id = "a1" THEN JujuRunActionName ELSE "custom-noop"]
    /\ ex = ExIdle
    /\ dying = NotDying
    /\ unit = UnitIdle

\* ---- SetUp ----

\* RunningActions succeeded: the range loop over the reported actions starts.
SetUpRunningActionsOk ==
    /\ pc = "new"
    /\ \E l \in RunningReports :
        /\ ractions' = l
        /\ calls' = Append(calls, Call("SetUp", "RunningActions", Nil, Nil, Nil, Nil, TRUE))
    /\ ridx' = 1
    /\ pc' = "cancel"
    /\ UNCHANGED <<status, hstart, batch, hres, herr, lastRet, nbatches, faults, crashes, config, aname, ex, dying, unit>>

\* RunningActions failed: SetUp returns the error.
SetUpRunningActionsFail ==
    /\ pc = "new"
    /\ CanFail
    /\ calls' = Append(calls, Call("SetUp", "RunningActions", Nil, Nil, Nil, Nil, FALSE))
    /\ faults' = faults + 1
    /\ pc' = "terminated"
    /\ UNCHANGED <<status, hstart, batch, ractions, ridx, hres, herr, lastRet, nbatches, crashes, config, aname, ex, dying, unit>>

\* Mutant of SetUpCancelSkip: "break" where the code has "continue".
SetUpCancelSkipBreaks ==
    /\ pc = "cancel"
    /\ ridx <= Len(ractions)
    /\ ~ParseOk(ractions[ridx])
    /\ ridx' = Len(ractions) + 1
    /\ UNCHANGED <<pc, status, calls, hstart, batch, ractions, hres, herr, lastRet, nbatches, faults, crashes, config, aname, ex, dying, unit>>

\* The tag does not parse: logged, continue.
SetUpCancelSkip ==
    /\ pc = "cancel"
    /\ ridx <= Len(ractions)
    /\ ~ParseOk(ractions[ridx])
    /\ ridx' = ridx + 1
    /\ UNCHANGED <<pc, status, calls, hstart, batch, ractions, hres, herr, lastRet, nbatches, faults, crashes, config, aname, ex, dying, unit>>

\* Mutant of SetUpCancelOk: the action is logged as cancelled but no finish is requested.
SetUpCancelOkNoCall ==
    /\ pc = "cancel"
    /\ ridx <= Len(ractions)
    /\ ParseOk(ractions[ridx])
    /\ ridx' = ridx + 1
    /\ UNCHANGED <<pc, status, calls, hstart, batch, ractions, hres, herr, lastRet, nbatches, faults, crashes, config, aname, ex, dying, unit>>

\* ActionFinish(tag, Cancelled, nil, "action cancelled") succeeded.
SetUpCancelOk ==
    /\ pc = "cancel"
    /\ ridx <= Len(ractions)
    /\ ParseOk(ractions[ridx])
    /\ calls' = Append(calls, Call("SetUp", "ActionFinish", TagId(ractions[ridx]),
                                   ActionCancelled, Nil, "action cancelled", TRUE))
    /\ status' = [status EXCEPT ![TagId(ractions[ridx])] = ActionCancelled]
    /\ ridx' = ridx + 1
    /\ UNCHANGED <<pc, hstart, batch, ractions, hres, herr, lastRet, nbatches, faults, crashes, config, aname, ex, dying, unit>>

\* Mutant of SetUpCancelFail: the error of the finish call is returned from SetUp.
SetUpCancelFailReturns ==
    /\ pc = "cancel"
    /\ ridx <= Len(ractions)
    /\ ParseOk(ractions[ridx])
    /\ CanFail
    /\ calls' = Append(calls, Call("SetUp", "ActionFinish", TagId(ractions[ridx]),
                                   ActionCancelled, Nil, "action cancelled", FALSE))
    /\ faults' = faults + 1
    /\ ridx' = ridx + 1
    /\ pc' = "terminated"
    /\ UNCHANGED <<status, hstart, batch, ractions, hres, herr, lastRet, nbatches, crashes, config, aname, ex, dying, unit>>

\* The same call failed: logged, the loop goes on.
SetUpCancelFail ==
    /\ pc = "cancel"
    /\ ridx <= Len(ractions)
    /\ ParseOk(ractions[ridx])
    /\ CanFail
    /\ calls' = Append(calls, Call("SetUp", "ActionFinish", TagId(ractions[ridx]),
                                   ActionCancelled, Nil, "action cancelled", FALSE))
    /\ faults' = faults + 1
    /\ ridx' = ridx + 1
    /\ UNCHANGED <<pc, status, hstart, batch, ractions, hres, herr, lastRet, nbatches, crashes, config, aname, ex, dying, unit>>

\* Mutant of SetUpWatchOk: the subscription is opened without waiting for the loop to end.
SetUpWatchOkEarly ==
    /\ pc = "cancel"
    /\ calls' = Append(calls, Call("SetUp", "WatchActionNotifications", Nil, Nil, Nil, Nil, TRUE))
    /\ pc' = "active"
    /\ UNCHANGED <<status, hstart, batch, ractions, ridx, hres, herr, lastRet, nbatches, faults, crashes, config, aname, ex, dying, unit>>

\* After the loop: WatchActionNotifications succeeded, the worker is Active.
SetUpWatchOk ==
    /\ pc = "cancel"
    /\ ridx > Len(ractions)
    /\ calls' = Append(calls, Call("SetUp", "WatchActionNotifications", Nil, Nil, Nil, Nil, TRUE))
    /\ pc' = "active"
    /\ UNCHANGED <<status, hstart, batch, ractions, ridx, hres, herr, lastRet, nbatches, faults, crashes, config, aname, ex, dying, unit>>

\* WatchActionNotifications failed: SetUp returns the error.
SetUpWatchFail ==
    /\ pc = "cancel"
    /\ ridx > Len(ractions)
    /\ CanFail
    /\ calls' = Append(calls, Call("SetUp", "WatchActionNotifications", Nil, Nil, Nil, Nil, FALSE))
    /\ faults' = faults + 1
    /\ pc' = "terminated"
    /\ UNCHANGED <<status, hstart, batch, ractions, ridx, hres, herr, lastRet, nbatches, crashes, config, aname, ex, dying, unit>>

\* ---- the stream ----

\* The watcher delivers a batch and the loop calls Handle with it.  A range loop
\* over an empty slice falls through to "return nil".
Deliver ==
    /\ pc = "active"
    /\ nbatches < MaxBatches
    /\ \E b \in Batches :
        /\ batch' = b
        /\ pc' = IF b = <<>> THEN "active" ELSE "fetch"
        /\ lastRet' = IF b = <<>> THEN "nil" ELSE "none"
    /\ hstart' = Len(calls)
    /\ nbatches' = nbatches + 1
    /\ hres' = Nil
    /\ herr' = Nil
    /\ UNCHANGED <<status, calls, ractions, ridx, faults, crashes, config, aname, ex, dying, unit>>

\* ---- Handle ----

\* The identifier of the loop's iteration: every path of the body returns, so
\* the range loop never gets past its first element.
CurId == batch[1]

\* Mutants of FinishStatus and FinishResults: the error is not looked at; no results are passed.
FinishStatusAlwaysCompleted(err) == ActionCompleted
FinishResultsDropped(err, res) == Nil
\* Mutant of FinishResults: what the handler returned is reported even with an error.
FinishResultsKept(err, res) == res

\* The arguments of the terminal ActionFinish call, from the handler's err.
FinishStatus(err) == IF err # Nil THEN ActionCancelled ELSE ActionCompleted
FinishResults(err, res) == IF err # Nil THEN Nil ELSE res
FinishMessage(err) == IF err # Nil THEN err ELSE ""

\* names.NewActionTag on an identifier that is not valid may panic: the validity
\* check above it only builds an error value and drops it.
HandleNewTagPanic ==
    /\ pc = "fetch"
    /\ ~IsValidAction(CurId)
    /\ pc' = "crashed"
    /\ UNCHANGED <<status, calls, hstart, batch, ractions, ridx, hres, herr, lastRet, nbatches, faults, crashes, config, aname, ex, dying, unit>>

\* Facade.Action succeeded.
HandleFetchOk ==
    /\ pc = "fetch"
    /\ HasRecord(CurId)
    /\ calls' = Append(calls, Call("Handle", "Action", CurId, Nil, Nil, Nil, TRUE))
    /\ pc' = "begin"
    /\ UNCHANGED <<status, hstart, batch, ractions, ridx, hres, herr, lastRet, nbatches, faults, crashes, config, aname, ex, dying, unit>>

\* Facade.Action failed (a fault, or no such action): Handle returns an error.
HandleFetchFail ==
    /\ pc = "fetch"
    /\ CanFail \/ ~HasRecord(CurId)
    /\ calls' = Append(calls, Call("Handle", "Action", CurId, Nil, Nil, Nil, FALSE))
    /\ faults' = IF HasRecord(CurId) THEN faults + 1 ELSE faults
    /\ pc' = "terminated"
    /\ lastRet' = "err"
    /\ UNCHANGED <<status, hstart, batch, ractions, ridx, hres, herr, nbatches, crashes, config, aname, ex, dying, unit>>

\* Mutant of HandleBeginOk: Handle reads the abort channel after the begin and
\* returns at once when it is closed.
HandleBeginOkChecksAbort ==
    /\ pc = "begin"
    /\ status[CurId] = ActionPending
    /\ calls' = Append(calls, Call("Handle", "ActionBegin", CurId, Nil, Nil, Nil, TRUE))
    /\ status' = [status EXCEPT ![CurId] = ActionRunning]
    /\ pc' = IF dying # NotDying THEN "active" ELSE "run"
    /\ lastRet' = IF dying # NotDying THEN "nil" ELSE lastRet
    /\ UNCHANGED <<hstart, batch, ractions, ridx, hres, herr, nbatches, faults, crashes, config, aname, ex, dying, unit>>

\* Facade.ActionBegin succeeded: the facade marks the action running.
HandleBeginOk ==
    /\ pc = "begin"
    /\ status[CurId] = ActionPending
    /\ calls' = Append(calls, Call("Handle", "ActionBegin", CurId, Nil, Nil, Nil, TRUE))
    /\ status' = [status EXCEPT ![CurId] = ActionRunning]
    /\ pc' = "run"
    /\ UNCHANGED <<hstart, batch, ractions, ridx, hres, herr, lastRet, nbatches, faults, crashes, config, aname, ex, dying, unit>>

\* Mutant of HandleBeginFail: the error is logged and the action is dispatched all the same.
HandleBeginFailGoesOn ==
    /\ pc = "begin"
    /\ CanFail \/ status[CurId] # ActionPending
    /\ calls' = Append(calls, Call("Handle", "ActionBegin", CurId, Nil, Nil, Nil, FALSE))
    /\ faults' = IF status[CurId] = ActionPending THEN faults + 1 ELSE faults
    /\ pc' = "run"
    /\ UNCHANGED <<status, hstart, batch, ractions, ridx, hres, herr, lastRet, nbatches, crashes, config, aname, ex, dying, unit>>

\* Facade.ActionBegin failed (a fault, or the action is not pending): Handle returns an error.
HandleBeginFail ==
    /\ pc = "begin"
    /\ CanFail \/ status[CurId] # ActionPending
    /\ calls' = Append(calls, Call("Handle", "ActionBegin", CurId, Nil, Nil, Nil, FALSE))
    /\ faults' = IF status[CurId] = ActionPending THEN faults + 1 ELSE faults
    /\ pc' = "terminated"
    /\ lastRet' = "err"
    /\ UNCHANGED <<status, hstart, batch, ractions, ridx, hres, herr, nbatches, crashes, config, aname, ex, dying, unit>>

\* Mutant of HandleRun: a handler error makes Handle return nil without a finish request.
HandleRunDropsError ==
    /\ pc = "run"
    /\ \E o \in HandlerOutcomes :
        /\ hres' = o[1]
        /\ herr' = o[2]
        /\ calls' = Append(calls, Call("Handle", "HandleAction", CurId, ActionName(CurId), o[1], o[2], TRUE))
        /\ pc' = IF o[2] # Nil THEN "active" ELSE "finish"
        /\ lastRet' = IF o[2] # Nil THEN "nil" ELSE lastRet
    /\ UNCHANGED <<status, hstart, batch, ractions, ridx, nbatches, faults, crashes, config, aname, ex, dying, unit>>

\* config.HandleAction(action.Name(), action.Params()) returns.
HandleRun ==
    /\ pc = "run"
    /\ \E o \in HandlerOutcomes :
        /\ hres' = o[1]
        /\ herr' = o[2]
        /\ calls' = Append(calls, Call("Handle", "HandleAction", CurId, ActionName(CurId), o[1], o[2], TRUE))
    /\ pc' = "finish"
    /\ UNCHANGED <<status, hstart, batch, ractions, ridx, lastRet, nbatches, faults, crashes, config, aname, ex, dying, unit>>

\* Mutant of HandleFinishOk: after the finish request a handler error is returned to the loop.
HandleFinishOkPropagates ==
    /\ pc = "finish"
    /\ calls' = Append(calls, Call("Handle", "ActionFinish", CurId, FinishStatus(herr),
                                   FinishResults(herr, hres), FinishMessage(herr), TRUE))
    /\ status' = [status EXCEPT ![CurId] = FinishStatus(herr)]
    /\ pc' = IF herr # Nil THEN "terminated" ELSE "active"
    /\ lastRet' = IF herr # Nil THEN "err" ELSE "nil"
    /\ UNCHANGED <<hstart, batch, ractions, ridx, hres, herr, nbatches, faults, crashes, config, aname, ex, dying, unit>>

\* Mutant of HandleFinishOk: the error branch lacks its "return" and falls through
\* to the Completed finish.
HandleFinishOkFallsThrough ==
    /\ pc = "finish"
    /\ calls' = IF herr # Nil
                THEN calls \o <<Call("Handle", "ActionFinish", CurId, ActionCancelled, Nil, herr, TRUE),
                                Call("Handle", "ActionFinish", CurId, ActionCompleted, hres, "", TRUE)>>
                ELSE Append(calls, Call("Handle", "ActionFinish", CurId, ActionCompleted, hres, "", TRUE))
    /\ status' = [status EXCEPT ![CurId] = ActionCompleted]
    /\ pc' = "active"
    /\ lastRet' = "nil"
    /\ UNCHANGED <<hstart, batch, ractions, ridx, hres, herr, nbatches, faults, crashes, config, aname, ex, dying, unit>>

\* The terminal ActionFinish succeeded: Handle returns nil.
HandleFinishOk ==
    /\ pc = "finish"
    /\ calls' = Append(calls, Call("Handle", "ActionFinish", CurId, FinishStatus(herr),
                                   FinishResults(herr, hres), FinishMessage(herr), TRUE))
    /\ status' = [status EXCEPT ![CurId] = FinishStatus(herr)]
    /\ pc' = "active"
    /\ lastRet' = "nil"
    /\ UNCHANGED <<hstart, batch, ractions, ridx, hres, herr, nbatches, faults, crashes, config, aname, ex, dying, unit>>

\* The terminal ActionFinish failed: Handle returns its error.
HandleFinishFail ==
    /\ pc = "finish"
    /\ CanFail
    /\ calls' = Append(calls, Call("Handle", "ActionFinish", CurId, FinishStatus(herr),
                                   FinishResults(herr, hres), FinishMessage(herr), FALSE))
    /\ faults' = faults + 1
    /\ pc' = "terminated"
    /\ lastRet' = "err"
    /\ UNCHANGED <<status, hstart, batch, ractions, ridx, hres, herr, nbatches, crashes, config, aname, ex, dying, unit>>

\* ---- the process ----

\* The agent dies, wherever the worker is.
Crash ==
    /\ pc \notin {"terminated", "crashed"}
    /\ crashes < MaxCrashes
    /\ crashes' = crashes + 1
    /\ pc' = "crashed"
    /\ UNCHANGED <<status, calls, hstart, batch, ractions, ridx, hres, herr, lastRet, nbatches, faults, config, aname, ex, dying, unit>>

\* The supervisor starts a new worker: NewMachineActionsWorker, then SetUp.
Restart ==
    /\ pc \in {"terminated", "crashed"}
    /\ pc' = "new"
    /\ calls' = <<>>
    /\ hstart' = 0
    /\ batch' = <<>>
    /\ ractions' = <<>>
    /\ ridx' = 1
    /\ hres' = Nil
    /\ herr' = Nil
    /\ lastRet' = "none"
    /\ dying' = NotDying
    /\ UNCHANGED <<status, nbatches, faults, crashes, config, aname, ex, unit>>

SetUpStep ==
    \/ SetUpRunningActionsOk
    \/ SetUpRunningActionsFail
    \/ SetUpCancelSkip
    \/ SetUpCancelOk
    \/ SetUpCancelFail
    \/ SetUpWatchOk
    \/ SetUpWatchFail

HandleStep ==
    \/ HandleNewTagPanic
    \/ HandleFetchOk
    \/ HandleFetchFail
    \/ HandleBeginOk
    \/ HandleBeginFail
    \/ HandleRun
    \/ HandleFinishOk
    \/ HandleFinishFail

Next ==
    \/ SetUpStep
    \/ Deliver
    \/ HandleStep
    \/ Crash
    \/ Restart

Spec == Init /\ [][Next]_vars

\* The worker under the hypothesis that the finish calls of startup succeed, with
\* the supervisor restarting a dead worker and SetUp running to its end.
LiveSetUpStep ==
    \/ SetUpRunningActionsOk
    \/ SetUpRunningActionsFail
    \/ SetUpCancelSkip
    \/ SetUpCancelOk
    \/ SetUpWatchOk
    \/ SetUpWatchFail

LiveNext ==
    \/ LiveSetUpStep
    \/ Deliver
    \/ HandleStep
    \/ Crash
    \/ Restart

LiveSpec == Init /\ [][LiveNext]_vars /\ WF_vars(Restart) /\ WF_vars(LiveSetUpStep)

----------------------------------------------------------------------------
\* ---- the constructor ----

\* Mutant of Validate: a nil HandleAction is let through.
ValidateNoHandler(c) ==
    IF ~c.Facade THEN "nil Facade not valid"
    ELSE IF ~c.AgentTag THEN "nil AgentTag not valid"
    ELSE Nil

\* WorkerConfig.Validate: the error, or Nil.
Validate(c) ==
    IF ~c.Facade THEN "nil Facade not valid"
    ELSE IF ~c.AgentTag THEN "nil AgentTag not valid"
    ELSE IF ~c.HandleAction THEN "nil HandleAction not valid"
    ELSE Nil

\* NewMachineActionsWorker: an invalid configuration makes no worker.
NewMachineActionsWorker ==
    /\ pc = "config"
    /\ pc' = IF Validate(config) # Nil THEN "notvalid" ELSE "new"
    /\ UNCHANGED <<status, calls, hstart, batch, ractions, ridx, hres, herr, lastRet,
                   nbatches, faults, crashes, config, aname, ex, dying, unit>>

\* ---- the reference handler: HandleAction, handleJujuRunAction, runCommandWithTimeout ----

\* Largest magnitude of a "timeout" parameter, in half nanoseconds.
MaxHalves == 3

\* params["timeout"]: absent, of another type than float64, or a float64 (here a
\* number of half nanoseconds, so that fractions occur).
TimeoutParams ==
    {[kind |-> "absent", halves |-> 0], [kind |-> "string", halves |-> 0]}
        \cup {[kind |-> "float", halves |-> h] : h \in (-MaxHalves)..MaxHalves}

\* Mutant of TruncToDuration: the fraction is cut off downwards.
TruncToDurationFloor(h) == h \div 2

\* time.Duration(f) of a float64: the fraction is cut off, towards zero.
TruncToDuration(h) == IF h >= 0 THEN h \div 2 ELSE -((-h) \div 2)

\* timeout, _ := params["timeout"].(float64); time.Duration(timeout)
DecodeTimeout(p) == IF p.kind = "float" THEN TruncToDuration(p.halves) ELSE 0

\* Mutant of TimerNeeded: the timer is started whatever the timeout.
TimerNeededAlways(timeout) == TRUE

\* if timeout != 0
TimerNeeded(timeout) == timeout # 0

\* What a command that ran to its end returns, and the errors of the executor.
ExitCodes == {0, 1}
Response(code) == IF code = 0 THEN "exit0" ELSE "exit1"
ErrStart == "command failed to start"
ErrCancelled == "command cancelled"

\* errors.Errorf("unexpected action %s", name)
UnexpectedActionError(name) ==
    IF name = "custom-noop" THEN "unexpected action custom-noop" ELSE "unexpected action juju-run"

\* Mutant of ActionResults: an empty mapping whatever the response.
ActionResultsEmpty(res) == "m0"

\* handleJujuRunAction's mapping: empty for a nil response, else the response's
\* Code, Stdout and Stderr (the mapping is named after the response it carries).
ActionResults(res) == IF res # Nil THEN res ELSE "m0"

\* The handler returns <<results, err>> to Handle.
HandlerReturns(res, err) ==
    /\ hres' = res
    /\ herr' = err
    /\ calls' = Append(calls, Call("Handle", "HandleAction", CurId, ActionName(CurId), res, err, TRUE))
    /\ pc' = "finish"

\* Mutant of RefHandleUnexpected: an unknown name is run as a command all the same.
RefHandleUnexpectedRuns ==
    /\ pc = "run"
    /\ ActionName(CurId) # JujuRunActionName
    /\ ex' = [ex EXCEPT !.ncmd = @ + 1, !.cmd = "done", !.code = 0, !.res = Response(0), !.err = Nil]
    /\ HandlerReturns(ActionResults(Response(0)), Nil)
    /\ UNCHANGED <<status, hstart, batch, ractions, ridx, lastRet, nbatches, faults, crashes, config, aname, dying, unit>>

\* HandleAction for a name other than juju-run.
RefHandleUnexpected ==
    /\ pc = "run"
    /\ ActionName(CurId) # JujuRunActionName
    /\ HandlerReturns(Nil, UnexpectedActionError(ActionName(CurId)))
    /\ UNCHANGED <<status, hstart, batch, ractions, ridx, lastRet, nbatches, faults, crashes, config, aname, ex, dying, unit>>

\* Mutant of RefRunStartFail: the timer goroutine is started before cmd.Run.
RefRunStartFailTimerFirst ==
    /\ pc = "run"
    /\ ActionName(CurId) = JujuRunActionName
    /\ \E p \in TimeoutParams :
        ex' = [ex EXCEPT !.ncmd = @ + 1, !.param = p, !.timeout = DecodeTimeout(p),
                         !.chans = IF TimerNeeded(DecodeTimeout(p)) THEN @ \cup {ex.ncmd + 1} ELSE @,
                         !.timers = IF TimerNeeded(DecodeTimeout(p)) THEN @ \cup {ex.ncmd + 1} ELSE @,
                         !.cmd = "none", !.longer = FALSE, !.wch = 0,
                         !.res = Nil, !.err = ErrStart]
    /\ HandlerReturns(ActionResults(Nil), ErrStart)
    /\ UNCHANGED <<status, hstart, batch, ractions, ridx, lastRet, nbatches, faults, crashes, config, aname, dying, unit>>

\* juju-run: cmd.Run fails; runCommandWithTimeout returns (nil, err) at once.
RefRunStartFail ==
    /\ pc = "run"
    /\ ActionName(CurId) = JujuRunActionName
    /\ \E p \in TimeoutParams :
        ex' = [ex EXCEPT !.ncmd = @ + 1, !.param = p, !.timeout = DecodeTimeout(p),
                         !.cmd = "none", !.longer = FALSE, !.wch = 0,
                         !.res = Nil, !.err = ErrStart]
    /\ HandlerReturns(ActionResults(Nil), ErrStart)
    /\ UNCHANGED <<status, hstart, batch, ractions, ridx, lastRet, nbatches, faults, crashes, config, aname, dying, unit>>

\* juju-run: cmd.Run succeeds; with a timer needed the cancel channel is made and
\* the timer goroutine started, and WaitWithCancel is entered (with the nil
\* channel otherwise).  longer: the command would run for longer than the
\* timeout (always so for a negative timeout, whose timer is due at once).
RefRunStartOk ==
    /\ pc = "run"
    /\ ActionName(CurId) = JujuRunActionName
    /\ \E p \in TimeoutParams, l \in BOOLEAN :
        LET t == DecodeTimeout(p)
            n == ex.ncmd + 1
        IN  /\ l = TRUE => TimerNeeded(t)
            /\ t < 0 => l = TRUE
            /\ ex' = [ex EXCEPT !.ncmd = n, !.param = p, !.timeout = t,
                                !.chans = IF TimerNeeded(t) THEN @ \cup {n} ELSE @,
                                !.timers = IF TimerNeeded(t) THEN @ \cup {n} ELSE @,
                                !.cmd = "running", !.code = 0, !.longer = l,
                                !.wch = IF TimerNeeded(t) THEN n ELSE 0,
                                !.res = Nil, !.err = Nil]
    /\ pc' = "wait"
    /\ UNCHANGED <<status, calls, hstart, batch, ractions, ridx, hres, herr, lastRet,
                   nbatches, faults, crashes, config, aname, dying, unit>>

\* Mutant of CancelSeen: any closed channel cancels the command waited for.
CancelSeenAny == ex.wch # 0 /\ \E n \in CmdIds : ex.closes[n] > 0

\* The cancel channel WaitWithCancel selects on is closed.
CancelSeen == ex.wch # 0 /\ ex.closes[ex.wch] > 0

\* The command ends by itself.  A command that outlasts its timeout does so only
\* after the timer is due, and the waiter acts on a closed channel first.
CmdCompletes ==
    /\ pc = "wait"
    /\ ex.cmd = "running"
    /\ ex.longer => ex.ncmd \notin ex.timers
    /\ ~CancelSeen
    /\ \E c \in ExitCodes : ex' = [ex EXCEPT !.cmd = "done", !.code = c]
    /\ UNCHANGED <<pc, status, calls, hstart, batch, ractions, ridx, hres, herr, lastRet,
                   nbatches, faults, crashes, config, aname, dying, unit>>

\* A timer goroutine: clock.After(timeout) is due, close(cancel), the goroutine
\* ends.  The timer of a command that ends within its timeout is due only
\* after that command's runCommandWithTimeout has returned.
TimerFires ==
    /\ \E n \in ex.timers :
        /\ (n = ex.ncmd /\ pc = "wait") => ex.longer
        /\ ex' = [ex EXCEPT !.timers = @ \ {n}, !.closes[n] = @ + 1]
    /\ UNCHANGED <<pc, status, calls, hstart, batch, ractions, ridx, hres, herr, lastRet,
                   nbatches, faults, crashes, config, aname, dying, unit>>

\* Mutant of WaitReturnsDone: a non-zero exit code is returned as an error.
WaitReturnsDoneExitIsError ==
    /\ pc = "wait"
    /\ ex.cmd = "done"
    /\ ex' = [ex EXCEPT !.res = Response(ex.code), !.err = IF ex.code # 0 THEN "exit status 1" ELSE Nil]
    /\ HandlerReturns(ActionResults(Response(ex.code)), IF ex.code # 0 THEN "exit status 1" ELSE Nil)
    /\ UNCHANGED <<status, hstart, batch, ractions, ridx, lastRet, nbatches, faults, crashes, config, aname, dying, unit>>

\* WaitWithCancel: the command is done; its response is returned without error.
WaitReturnsDone ==
    /\ pc = "wait"
    /\ ex.cmd = "done"
    /\ ex' = [ex EXCEPT !.res = Response(ex.code), !.err = Nil]
    /\ HandlerReturns(ActionResults(Response(ex.code)), Nil)
    /\ UNCHANGED <<status, hstart, batch, ractions, ridx, lastRet, nbatches, faults, crashes, config, aname, dying, unit>>

\* Mutant of WaitReturnsCancelled: the channel is not looked at; the command is awaited.
WaitReturnsCancelledNever ==
    /\ pc = "wait"
    /\ CancelSeen
    /\ ex.cmd = "running"
    /\ \E c \in ExitCodes : ex' = [ex EXCEPT !.cmd = "done", !.code = c]
    /\ UNCHANGED <<pc, status, calls, hstart, batch, ractions, ridx, hres, herr, lastRet,
                   nbatches, faults, crashes, config, aname, dying, unit>>

\* WaitWithCancel: the cancel channel is closed; the command is killed and the
\* cancellation error returned, with or without what the command had written.
WaitReturnsCancelled ==
    /\ pc = "wait"
    /\ CancelSeen
    /\ \E r \in {Nil, "partial"} :
        /\ ex' = [ex EXCEPT !.cmd = IF @ = "running" THEN "killed" ELSE @, !.res = r, !.err = ErrCancelled]
        /\ HandlerReturns(ActionResults(r), ErrCancelled)
    /\ UNCHANGED <<status, hstart, batch, ractions, ridx, lastRet, nbatches, faults, crashes, config, aname, dying, unit>>

\* ---- shutdown ----

\* The positions between a successful ActionBegin and the ActionFinish call.
InAction == pc \in {"run", "wait", "finish"}

\* worker.Kill: the abort channel Handle is given (and does not read) is closed.
Kill ==
    /\ dying = NotDying
    /\ pc \in {"new", "cancel", "active", "fetch", "begin", "run", "wait", "finish"}
    /\ dying' = IF InAction THEN [at |-> "action", nb |-> nbatches] ELSE [at |-> "idle", nb |-> 0]
    /\ UNCHANGED <<pc, status, calls, hstart, batch, ractions, ridx, hres, herr, lastRet,
                   nbatches, faults, crashes, config, aname, ex, unit>>

\* The loop, back at its select after SetUp or Handle has returned, takes the
\* dying branch and the worker stops.
LoopStops ==
    /\ pc = "active"
    /\ dying # NotDying
    /\ pc' = "stopped"
    /\ UNCHANGED <<status, calls, hstart, batch, ractions, ridx, hres, herr, lastRet,
                   nbatches, faults, crashes, config, aname, ex, dying, unit>>

\* A stop request interrupts the blocked read of the stream: a worker asked to
\* stop is handed no further batch.
DeliverAlive ==
    /\ dying = NotDying
    /\ Deliver

RefHandlerStep ==
    \/ RefHandleUnexpected
    \/ RefRunStartFail
    \/ RefRunStartOk
    \/ CmdCompletes
    \/ TimerFires
    \/ WaitReturnsDone
    \/ WaitReturnsCancelled

\* One life of the worker as the agent builds it: any configuration, any names
\* in the facade's records, actions an earlier life may have left running, and
\* HandleAction as the configured handler.
RefInit ==
    /\ pc = "config"
    /\ status \in [ValidIds -> {ActionPending, ActionRunning}]
    /\ calls = <<>>
    /\ hstart = 0
    /\ batch = <<>>
    /\ ractions = <<>>
    /\ ridx = 1
    /\ hres = Nil
    /\ herr = Nil
    /\ lastRet = "none"
    /\ nbatches = 0
    /\ faults = 0
    /\ crashes = 0
    /\ config \in [Facade : BOOLEAN, AgentTag : BOOLEAN, HandleAction : BOOLEAN]
    /\ aname \in [ValidIds -> Names]
    /\ ex = ExIdle
    /\ dying = NotDying
    /\ unit = UnitIdle

RefNext ==
    \/ NewMachineActionsWorker
    \/ SetUpRunningActionsOk
    \/ SetUpRunningActionsFail
    \/ SetUpCancelSkip
    \/ SetUpCancelOk
    \/ SetUpCancelFail
    \/ SetUpWatchOk
    \/ SetUpWatchFail
    \/ Deliver
    \/ HandleNewTagPanic
    \/ HandleFetchOk
    \/ HandleFetchFail
    \/ HandleBeginOk
    \/ HandleBeginFail
    \/ RefHandlerStep
    \/ HandleFinishOk
    \/ HandleFinishFail

RefSpec == RefInit /\ [][RefNext]_vars

\* One life of a worker that may be asked to stop at any point: a complete
\* configuration, nothing left running by an earlier life, one juju-run action
\* and one of another name, and HandleAction as the configured handler.
StopInit ==
    /\ pc = "new"
    /\ status = [id \in ValidIds |-> ActionPending]
    /\ calls = <<>>
    /\ hstart = 0
    /\ batch = <<>>
    /\ ractions = <<>>
    /\ ridx = 1
    /\ hres = Nil
    /\ herr = Nil
    /\ lastRet = "none"
    /\ nbatches = 0
    /\ faults = 0
    /\ crashes = 0
    /\ config = [Facade |-> TRUE, AgentTag |-> TRUE, HandleAction |-> TRUE]
    /\ aname = [id \in ValidIds |-> IF id = "a1" THEN JujuRunActionName ELSE "custom-noop"]
    /\ ex = ExIdle
    /\ dying = NotDying
    /\ unit = UnitIdle

StopNext ==
    \/ SetUpRunningActionsOk
    \/ SetUpRunningActionsFail
    \/ SetUpCancelSkip
    \/ SetUpWatchOk
    \/ SetUpWatchFail
    \/ DeliverAlive
    \/ HandleNewTagPanic
    \/ HandleFetchOk
    \/ HandleFetchFail
    \/ HandleBeginOk
    \/ HandleBeginFail
    \/ RefHandlerStep
    \/ HandleFinishOk
    \/ HandleFinishFail
    \/ Kill
    \/ LoopStops

StopSpec == StopInit /\ [][StopNext]_vars

----------------------------------------------------------------------------
\* Reading the call log.
Idx == DOMAIN calls
IsBegin(k) == calls[k].op = "ActionBegin"
BeginOk(k) == IsBegin(k) /\ calls[k].ok
IsFinish(k) == calls[k].op = "ActionFinish"
HandleFinish(k) == calls[k].at = "Handle" /\ IsFinish(k)
SetUpFinish(k) == calls[k].at = "SetUp" /\ IsFinish(k)
IsHandlerCall(k) == calls[k].op = "HandleAction"
\* The Handle invocation that made call k has returned.
Returned(k) == calls[k].nb < nbatches \/ lastRet # "none"
\* The finish requests of the Handle invocation that made call k.
FinishesOf(k) == {j \in Idx : HandleFinish(j) /\ calls[j].nb = calls[k].nb}
\* Successfully begun and not yet followed by a finish request.
InFlight == {k \in Idx : BeginOk(k) /\ ~\E j \in Idx : j > k /\ IsFinish(j) /\ calls[j].id = calls[k].id}

\* C1: strict serial dispatch. In every state of one worker run at most one action
\* is between its successful ActionBegin and its ActionFinish call, and it is the
\* one Handle is working on; no ActionBegin is issued before the finish call of
\* the previously begun action; actions are begun in the order of delivery (a
\* later ActionBegin belongs to a later batch, and its identifier to that batch).
C1_SerialDispatch ==
    /\ Cardinality(InFlight) <= 1
    /\ \A k \in InFlight :
        /\ pc \in {"run", "finish", "crashed"}
        /\ calls[k].id = CurId
        /\ calls[k].nb = nbatches
    /\ \A k, j \in Idx :
        (k < j /\ BeginOk(k) /\ IsBegin(j)) =>
            \E m \in Idx : k < m /\ m < j /\ IsFinish(m) /\ calls[m].id = calls[k].id
    /\ \A k, j \in Idx : (k < j /\ IsBegin(k) /\ IsBegin(j)) => calls[k].nb < calls[j].nb
    /\ \A k \in Idx :
        (IsBegin(k) /\ calls[k].nb = nbatches) => \E i \in DOMAIN batch : batch[i] = calls[k].id

\* Two actions were begun by one worker run.
C1_Witness ==
    \E k, j \in Idx : k < j /\ BeginOk(k) /\ BeginOk(j)

\* C2: once Handle has returned, every action it began successfully has received
\* exactly one ActionFinish request, after the begin, with status Completed or
\* Cancelled, whether the handler succeeded or failed.
C2_BegunIsFinishedOnce ==
    \A k \in Idx :
        (BeginOk(k) /\ Returned(k)) =>
            /\ Cardinality(FinishesOf(k)) = 1
            /\ \A j \in FinishesOf(k) :
                /\ j > k
                /\ calls[j].id = calls[k].id
                /\ calls[j].st \in {ActionCompleted, ActionCancelled}

\* Handle returned an error after a successful begin: the finish request itself failed.
C2_Witness ==
    /\ lastRet = "err"
    /\ \E k \in Idx : BeginOk(k) /\ calls[k].nb = nbatches
    /\ herr # Nil

\* C3: a handler error yields at most one finish request, exactly one once Handle
\* has returned, and that request has status Cancelled, a nil result mapping and
\* the error's text as message; there is no Completed request for that action.
C3_HandlerErrorCancels ==
    \A k \in Idx :
        (IsHandlerCall(k) /\ calls[k].msg # Nil) =>
            /\ Cardinality(FinishesOf(k)) <= 1
            /\ Returned(k) => Cardinality(FinishesOf(k)) = 1
            /\ \A j \in FinishesOf(k) :
                /\ calls[j].id = calls[k].id
                /\ calls[j].st = ActionCancelled
                /\ calls[j].res = Nil
                /\ calls[j].msg = calls[k].msg

\* The handler failed with text e2 and Handle returned nil after the Cancelled finish.
C3_Witness ==
    /\ lastRet = "nil"
    /\ herr = "e2"
    /\ \E j \in Idx : HandleFinish(j) /\ calls[j].nb = nbatches /\ calls[j].ok

\* C4: a handler success yields at most one finish request, exactly one once Handle
\* has returned, and that request has status Completed, the handler's result
\* mapping and an empty message; there is no Cancelled request for that action.
C4_HandlerSuccessCompletes ==
    \A k \in Idx :
        (IsHandlerCall(k) /\ calls[k].msg = Nil) =>
            /\ Cardinality(FinishesOf(k)) <= 1
            /\ Returned(k) => Cardinality(FinishesOf(k)) = 1
            /\ \A j \in FinishesOf(k) :
                /\ calls[j].id = calls[k].id
                /\ calls[j].st = ActionCompleted
                /\ calls[j].res = calls[k].res
                /\ calls[j].msg = ""

\* The handler returned the mapping m1 without error and Handle returned nil.
C4_Witness ==
    /\ lastRet = "nil"
    /\ herr = Nil
    /\ hres = "m1"
    /\ \E j \in Idx : HandleFinish(j) /\ calls[j].nb = nbatches /\ calls[j].ok

\* C5: an invalid identifier of a batch is skipped. Handle makes no Action,
\* ActionBegin, HandleAction or ActionFinish call for it, and neither returns an
\* error nor dies on it.
C5_InvalidIdSkipped ==
    /\ \A k \in Idx : calls[k].at = "Handle" => IsValidAction(calls[k].id)
    /\ (lastRet = "err" /\ calls # <<>>) => IsValidAction(calls[Len(calls)].id)

\* C6: Handle executes every action of the batch before returning. When it returns
\* nil for a batch of valid identifiers with every facade call having succeeded,
\* each identifier of the batch was fetched, begun, dispatched and finished.
C6_WholeBatchExecuted ==
    (/\ lastRet = "nil"
     /\ \A i \in DOMAIN batch : IsValidAction(batch[i])
     /\ \A k \in Idx : k > hstart => calls[k].ok)
    => \A i \in DOMAIN batch :
         \A op \in {"Action", "ActionBegin", "HandleAction", "ActionFinish"} :
            \E k \in Idx : k > hstart /\ calls[k].op = op /\ calls[k].id = batch[i]

\* The finish requests of startup for the action a reported tag names.
StartupFinishes(tag) == {k \in Idx : SetUpFinish(k) /\ calls[k].id = TagId(tag)}

\* C7 as stated: for every reported action the loop of SetUp has gone through,
\* exactly one Cancelled finish was requested, whatever failed on it.
C7_CancelAttemptForEvery ==
    \A i \in DOMAIN ractions :
        i < ridx => Cardinality(StartupFinishes(ractions[i])) = 1

\* C7, amended: for every reported action the loop of SetUp has gone through and
\* whose tag parses, exactly one finish request was made, with status Cancelled, a
\* nil mapping and the fixed message, whether it or any other item failed; for
\* one whose tag does not parse, and for those not yet reached, none was made.
C7_CancelAttemptForParsable ==
    /\ \A i \in DOMAIN ractions :
        Cardinality(StartupFinishes(ractions[i])) =
            IF i < ridx /\ ParseOk(ractions[i]) THEN 1 ELSE 0
    /\ \A k \in Idx :
        SetUpFinish(k) =>
            /\ calls[k].st = ActionCancelled
            /\ calls[k].res = Nil
            /\ calls[k].msg = "action cancelled"
            /\ \E i \in DOMAIN ractions : TagId(ractions[i]) = calls[k].id

\* SetUp went through an unparsable entry and then an action whose finish failed,
\* and still reached the end of its loop.
C7_Witness ==
    /\ Len(ractions) >= 2
    /\ ridx > Len(ractions)
    /\ ~ParseOk(ractions[1])
    /\ \E k \in Idx : SetUpFinish(k) /\ ~calls[k].ok
    /\ pc = "active"

\* C8: the subscription is opened only when the loop over the reported actions is
\* over, every parsable one having had its finish request; every finish request
\* of startup precedes the WatchActionNotifications call, and every call Handle
\* makes (ActionBegin among them) follows a successful one.
C8_WatchAfterStartupCancel ==
    /\ \A w \in Idx :
        calls[w].op = "WatchActionNotifications" =>
            /\ ridx > Len(ractions)
            /\ \A i \in DOMAIN ractions :
                ParseOk(ractions[i]) => \E k \in StartupFinishes(ractions[i]) : k < w
            /\ \A k \in Idx : SetUpFinish(k) => k < w
    /\ \A k \in Idx :
        calls[k].at = "Handle" =>
            \E w \in Idx : w < k /\ calls[w].op = "WatchActionNotifications" /\ calls[w].ok
    /\ pc \in {"active", "fetch", "begin", "run", "finish"} =>
            \E w \in Idx : calls[w].op = "WatchActionNotifications" /\ calls[w].ok

\* A run cancelled an action at startup and then began another.
C8_Witness ==
    /\ \E k \in Idx : SetUpFinish(k)
    /\ \E k \in Idx : BeginOk(k)

\* An action the facade has as running while the worker that began it is gone.
Stranded(a) == status[a] = ActionRunning /\ pc \in {"crashed", "terminated"}

\* C9: an action left running by a worker that died, or whose finish request
\* failed, is eventually Cancelled once the supervisor has restarted the worker,
\* given that the finish calls of startup succeed.
C9_StrandedEventuallyCancelled ==
    \A a \in ValidIds : Stranded(a) ~> (status[a] = ActionCancelled)

\* The worker died between begin and finish, and the next run's SetUp cancelled the action.
C9_Witness ==
    /\ crashes > 0
    /\ \E k \in Idx : SetUpFinish(k) /\ calls[k].ok /\ status[calls[k].id] = ActionCancelled

\* C10: a failed Action or ActionBegin call is the last call Handle makes: it
\* returns an error, with no ActionBegin, HandleAction or ActionFinish after it,
\* for this identifier or a later one of the batch.
C10_FetchBeginFailureFatal ==
    \A k \in Idx :
        (calls[k].at = "Handle" /\ calls[k].op \in {"Action", "ActionBegin"} /\ ~calls[k].ok) =>
            /\ k = Len(calls)
            /\ pc = "terminated"
            /\ lastRet = "err"
            /\ calls[k].op = "Action" => ~\E j \in Idx : j > hstart /\ IsBegin(j)
            /\ ~\E j \in Idx : j > hstart /\ (IsHandlerCall(j) \/ IsFinish(j))

\* ActionBegin failed on the first identifier of a batch that holds another one.
C10_Witness ==
    /\ lastRet = "err"
    /\ Len(batch) >= 2
    /\ batch[2] # batch[1]
    /\ IsValidAction(batch[2])
    /\ calls # <<>>
    /\ IsBegin(Len(calls))
    /\ ~calls[Len(calls)].ok

\* The calls of the current (or last) Handle invocation.
HandleCalls == {k \in Idx : k > hstart /\ calls[k].at = "Handle"}

\* C11: Handle returns an error exactly when one of its facade calls (Action,
\* ActionBegin, ActionFinish) failed, and that call is its last; the loop then
\* terminates. When it returns nil every call it made succeeded, the handler's
\* own error notwithstanding, and the loop stays Active.
C11_ErrorIffFacadeCallFailed ==
    /\ lastRet = "err" =>
        /\ pc = "terminated"
        /\ calls # <<>>
        /\ Len(calls) \in HandleCalls
        /\ ~calls[Len(calls)].ok
        /\ calls[Len(calls)].op \in {"Action", "ActionBegin", "ActionFinish"}
    /\ lastRet = "nil" =>
        /\ pc \in {"active", "crashed"}
        /\ \A k \in HandleCalls : calls[k].ok
    /\ (\E k \in HandleCalls : ~calls[k].ok) => lastRet = "err"

\* The handler failed, the Cancelled finish succeeded, Handle returned nil and the loop is Active.
C11_Witness ==
    /\ lastRet = "nil"
    /\ pc = "active"
    /\ herr # Nil
    /\ \E k \in HandleCalls : HandleFinish(k) /\ calls[k].st = ActionCancelled /\ calls[k].ok

\* SetUp returned an error: the worker terminated without Handle having been entered.
SetUpFailed == pc = "terminated" /\ lastRet = "none"

\* C20: SetUp fails exactly when the RunningActions call or the
\* WatchActionNotifications call fails, that call being its last; a failed
\* RunningActions is followed by no ActionFinish and no WatchActionNotifications
\* call; a failed finish request or an unparsable tag during the startup loop
\* neither fails SetUp nor keeps the subscription from being opened next.
C20_SetUpFailsOnlyOnQueryOrWatch ==
    /\ SetUpFailed =>
        /\ calls # <<>>
        /\ ~calls[Len(calls)].ok
        /\ calls[Len(calls)].op \in {"RunningActions", "WatchActionNotifications"}
    /\ \A k \in Idx :
        (calls[k].op \in {"RunningActions", "WatchActionNotifications"} /\ ~calls[k].ok) =>
            /\ k = Len(calls)
            /\ SetUpFailed
    /\ \A k \in Idx :
        (calls[k].op = "RunningActions" /\ ~calls[k].ok) => Len(calls) = 1
    /\ (pc = "cancel" /\ ridx > Len(ractions)) => ENABLED SetUpWatchOk

\* A finish request of startup failed, after an unparsable entry, and the subscription was opened.
C20_Witness ==
    /\ pc = "active"
    /\ \E k \in Idx : SetUpFinish(k) /\ ~calls[k].ok
    /\ \E i \in DOMAIN ractions : ~ParseOk(ractions[i])
    /\ calls[Len(calls)].op = "WatchActionNotifications"
    /\ calls[Len(calls)].ok

----------------------------------------------------------------------------
\* The reference handler and the constructor (RefSpec).

ConfigComplete == config.Facade /\ config.AgentTag /\ config.HandleAction

\* C19: NewMachineActionsWorker answers not-valid and makes no worker, so that no
\* facade call and no command is ever made, exactly when Facade, AgentTag or
\* HandleAction is nil; a complete configuration passes validation.
C19_NotValidIffIncomplete ==
    /\ pc # "config" => (pc = "notvalid" <=> ~ConfigComplete)
    /\ ~ConfigComplete => (pc \in {"config", "notvalid"} /\ calls = <<>> /\ ex = ExIdle)
    /\ Validate(config) = Nil <=> ConfigComplete

C19_Witness == pc = "notvalid" /\ config.Facade /\ config.AgentTag /\ ~config.HandleAction

\* The handler calls made for the juju-run name: each of them ran one command.
JujuRunCalls == {k \in Idx : IsHandlerCall(k) /\ calls[k].st = JujuRunActionName}

\* C17: for a name other than juju-run the reference handler starts no command and
\* no timer and returns no results and the error "unexpected action <name>"; the
\* action's finish request then has status Cancelled, no results and that text.
C17_UnexpectedActionCancelled ==
    /\ ex.ncmd = Cardinality(JujuRunCalls) + (IF pc = "wait" THEN 1 ELSE 0)
    /\ ex.chans \subseteq 1..ex.ncmd
    /\ (pc = "wait") => ActionName(CurId) = JujuRunActionName
    /\ \A k \in Idx :
        (IsHandlerCall(k) /\ calls[k].st # JujuRunActionName) =>
            /\ calls[k].st = "custom-noop"
            /\ calls[k].res = Nil
            /\ calls[k].msg = "unexpected action custom-noop"
            /\ Returned(k) => Cardinality(FinishesOf(k)) = 1
            /\ \A j \in FinishesOf(k) :
                /\ calls[j].id = calls[k].id
                /\ calls[j].st = ActionCancelled
                /\ calls[j].res = Nil
                /\ calls[j].msg = "unexpected action custom-noop"

\* custom-noop was dispatched and its Cancelled finish accepted, with no command run.
C17_Witness ==
    /\ ex.ncmd = 0
    /\ \E k, j \in Idx :
        /\ IsHandlerCall(k) /\ calls[k].st = "custom-noop"
        /\ j \in FinishesOf(k) /\ calls[j].ok /\ calls[j].st = ActionCancelled

\* C15: when cmd.Run fails, runCommandWithTimeout returns that error and a nil
\* response at once, whatever the timeout: the call has made no cancel channel
\* and started no timer, nothing is waited for, and the handler hands the error
\* on with an empty mapping.
C15_StartFailureIsImmediate ==
    (ex.ncmd > 0 /\ ex.err = ErrStart) =>
        /\ ex.res = Nil
        /\ ex.cmd = "none"
        /\ ex.ncmd \notin ex.chans
        /\ ex.ncmd \notin ex.timers
        /\ ex.closes[ex.ncmd] = 0
        /\ pc # "wait"
        /\ \E k \in JujuRunCalls :
            /\ \A j \in JujuRunCalls : j <= k
            /\ calls[k].msg = ErrStart
            /\ calls[k].res = "m0"

\* A command with a non-zero timeout failed to start.
C15_Witness == ex.ncmd > 0 /\ ex.err = ErrStart /\ ex.timeout # 0

\* The handler has returned from the last command started.
LastCmdReturned == ex.ncmd > 0 /\ pc # "wait"

\* C13: a started command with timeout 0 has no cancel channel and no timer, is
\* never killed and never ends in the cancellation error, whatever else happens
\* while it runs (timers of earlier commands included); once it has ended, its
\* own response, exit code included, is what the handler returns, without error.
C13_ZeroTimeoutAwaitsResult ==
    (ex.ncmd > 0 /\ ex.cmd # "none" /\ ex.timeout = 0) =>
        /\ ex.ncmd \notin ex.chans
        /\ ex.ncmd \notin ex.timers
        /\ ex.closes[ex.ncmd] = 0
        /\ ex.wch = 0
        /\ ex.cmd \in {"running", "done"}
        /\ ex.err = Nil
        /\ LastCmdReturned =>
            /\ ex.cmd = "done"
            /\ ex.res = Response(ex.code)
            /\ \E k \in JujuRunCalls :
                /\ \A j \in JujuRunCalls : j <= k
                /\ calls[k].res = Response(ex.code)
                /\ calls[k].msg = Nil

\* The second command ran with timeout 0 to exit code 1 and was returned, after
\* the timer of the first command had closed its channel.
C13_Witness ==
    /\ ex.ncmd = 2 /\ ex.closes[1] > 0
    /\ ex.timeout = 0 /\ ex.cmd = "done" /\ ex.code = 1 /\ LastCmdReturned

\* C12: a started command that would outlast its timeout has a non-zero timeout
\* and a timer; the timer closes that call's cancel channel once and is gone (no
\* channel is ever closed twice); the command never reaches its own end, and
\* runCommandWithTimeout returns only after the close, with the command killed
\* and the cancellation error, which the handler hands on.
C12_TimeoutCancelsOnce ==
    /\ \A n \in CmdIds : ex.closes[n] <= 1 /\ (ex.closes[n] = 1 => n \in ex.chans \ ex.timers)
    /\ (ex.ncmd > 0 /\ ex.cmd # "none" /\ ex.longer) =>
        /\ ex.timeout # 0
        /\ ex.ncmd \in ex.chans
        /\ ex.wch = ex.ncmd
        /\ (ex.ncmd \in ex.timers) <=> (ex.closes[ex.ncmd] = 0)
        /\ ex.cmd \in {"running", "killed"}
        /\ LastCmdReturned =>
            /\ ex.closes[ex.ncmd] = 1
            /\ ex.cmd = "killed"
            /\ ex.err = ErrCancelled
            /\ \E k \in JujuRunCalls :
                /\ \A j \in JujuRunCalls : j <= k
                /\ calls[k].msg = ErrCancelled

\* A command with a positive timeout was killed by its timer and the call returned.
C12_Witness ==
    /\ ex.longer /\ ex.timeout > 0 /\ ex.cmd = "killed"
    /\ ex.closes[ex.ncmd] = 1 /\ LastCmdReturned

\* C16: a command that started and ended with a non-zero exit code is returned
\* without error, its response, code included, in the handler's mapping; the
\* action's finish request then has status Completed, that mapping and an empty
\* message, and there is exactly one once Handle has returned.
C16_NonZeroExitCompletes ==
    /\ (LastCmdReturned /\ ex.cmd = "done" /\ ex.code # 0) =>
        /\ ex.err = Nil
        /\ ex.res = "exit1"
        /\ \E k \in JujuRunCalls :
            /\ \A j \in JujuRunCalls : j <= k
            /\ calls[k].res = "exit1"
            /\ calls[k].msg = Nil
    /\ \A k \in JujuRunCalls :
        calls[k].res = "exit1" =>
            /\ calls[k].msg = Nil
            /\ Returned(k) => Cardinality(FinishesOf(k)) = 1
            /\ \A j \in FinishesOf(k) :
                /\ calls[j].id = calls[k].id
                /\ calls[j].st = ActionCompleted
                /\ calls[j].res = "exit1"
                /\ calls[j].msg = ""

\* A command ended with exit code 1 and its action's Completed finish was accepted.
C16_Witness ==
    /\ ex.cmd = "done" /\ ex.code = 1
    /\ \E j \in Idx : HandleFinish(j) /\ calls[j].ok /\ calls[j].nb = nbatches
                        /\ calls[j].st = ActionCompleted /\ calls[j].res = "exit1"

\* C14: the timer of a command that ends before it is stopped when the command
\* ends: the only timer that can be pending is the one of the command being
\* waited for with a timeout, so there is at most one, and none once
\* runCommandWithTimeout has returned.
C14_TimerStoppedOnCompletion ==
    /\ ex.timers \subseteq (IF pc = "wait" /\ ex.wch # 0 THEN {ex.ncmd} ELSE {})
    /\ Cardinality(ex.timers) <= 1

\* A command was started with the decoded timeout and a possible timer.
CmdStarted == ex.ncmd > 0 /\ ex.cmd # "none"

C21_TimedOutIsCancelled ==
    /\ (LastCmdReturned /\ ex.err = ErrCancelled) =>
        /\ ex.cmd = "killed"
        /\ ex.closes[ex.ncmd] = 1
        /\ \E k \in JujuRunCalls :
            /\ \A j \in JujuRunCalls : j <= k
            /\ calls[k].msg = ErrCancelled
            /\ calls[k].res \in {"m0", "partial"}
    /\ \A k \in JujuRunCalls :
        calls[k].msg = ErrCancelled =>
            /\ Cardinality(FinishesOf(k)) <= 1
            /\ Returned(k) => Cardinality(FinishesOf(k)) = 1
            /\ \A j \in FinishesOf(k) :
                /\ j > k
                /\ calls[j].id = calls[k].id
                /\ calls[j].st = ActionCancelled
                /\ calls[j].res = Nil
                /\ calls[j].msg = "command cancelled"

\* The handler returned partial output with the cancellation error, and the
\* Cancelled finish without results was accepted.
C21_Witness ==
    \E k \in JujuRunCalls, j \in Idx :
        /\ calls[k].msg = ErrCancelled /\ calls[k].res = "partial"
        /\ j \in FinishesOf(k) /\ calls[j].ok /\ calls[j].res = Nil

\* C22: a timer can cancel only the command it was started for. The waiter reads
\* its own call's channel or none; a command is killed, or returned with the
\* cancellation error, only if it outlasted its own timeout and its own channel
\* was closed; a command that ends within its timeout (or has none) is returned
\* with its own response and no error, and its action's finish request is
\* Completed with that response, whatever timers of earlier commands have fired.
C22_TimerIsolation ==
    CmdStarted =>
        /\ ex.wch \in {0, ex.ncmd}
        /\ (ex.cmd = "killed" \/ ex.err = ErrCancelled) =>
            (ex.longer /\ ex.timeout # 0 /\ ex.closes[ex.ncmd] = 1)
        /\ (~ex.longer /\ LastCmdReturned) =>
            /\ ex.cmd = "done"
            /\ ex.err = Nil
            /\ ex.res = Response(ex.code)
            /\ \E k \in JujuRunCalls :
                /\ \A j \in JujuRunCalls : j <= k
                /\ calls[k].res = Response(ex.code)
                /\ calls[k].msg = Nil
                /\ \A j \in FinishesOf(k) :
                    calls[j].st = ActionCompleted /\ calls[j].res = Response(ex.code)

\* The first command ended within its timeout and its timer fired afterwards; the
\* second command, with a timeout of its own, ran to its end and was Completed.
C22_Witness ==
    /\ ex.ncmd = 2 /\ ex.closes[1] = 1 /\ ex.closes[2] = 0
    /\ ex.timeout # 0 /\ ~ex.longer /\ ex.cmd = "done"
    /\ \E k, m \in JujuRunCalls, j \in Idx :
        /\ k < m /\ calls[k].msg = Nil
        /\ j \in FinishesOf(m) /\ calls[j].ok /\ calls[j].st = ActionCompleted

\* The worker was asked to stop while an action was between begin and finish.
KilledInAction == dying.at = "action"

\* C23: a stop request that arrives while an action is between ActionBegin and
\* ActionFinish does not interrupt it. While Handle is at work the loop cannot
\* stop; the action that was in progress had been begun, and once its Handle has
\* returned it has received exactly one finish request, Completed or Cancelled,
\* after its begin; a worker that has stopped has left no begun action without
\* its finish request.
C23_ShutdownDoesNotInterrupt ==
    /\ pc \in {"fetch", "begin", "run", "wait", "finish"} => ~ENABLED LoopStops
    /\ pc = "stopped" => (dying # NotDying /\ InFlight = {})
    /\ KilledInAction =>
        \E k \in Idx :
            /\ BeginOk(k) /\ calls[k].nb = dying.nb
            /\ Cardinality(FinishesOf(k)) <= 1
            /\ (Returned(k) \/ pc = "stopped") =>
                /\ Cardinality(FinishesOf(k)) = 1
                /\ \A j \in FinishesOf(k) :
                    /\ j > k
                    /\ calls[j].id = calls[k].id
                    /\ calls[j].st \in {ActionCompleted, ActionCancelled}

\* Asked to stop while a command was running, the worker ran it to its end,
\* had the Completed finish accepted and only then stopped.
C23_Witness ==
    /\ pc = "stopped" /\ KilledInAction /\ ex.cmd = "done"
    /\ \E j \in Idx : HandleFinish(j) /\ calls[j].nb = dying.nb /\ calls[j].ok
                        /\ calls[j].st = ActionCompleted

----------------------------------------------------------------------------
\* The deployer's Unit and its Name (NameSpec).  Strings are sequences of characters.

\* Longest application name drawn.
MaxAppLen == 3

\* const unitTagPrefix = "unit-"
unitTagPrefix == <<"u", "n", "i", "t", "-">>

\* strings.HasPrefix
HasPrefix(s, p) == Len(s) >= Len(p) /\ SubSeq(s, 1, Len(p)) = p

\* strings.Replace(s, old, new, -1) for one-character old and new.
Replace(s, old, new) == [i \in 1..Len(s) |-> IF s[i] = old THEN new ELSE s[i]]

\* Unit.Name
Name(tag) ==
    IF ~HasPrefix(tag, unitTagPrefix) THEN <<>>
    ELSE Replace(SubSeq(tag, Len(unitTagPrefix) + 1, Len(tag)), "-", "/")

\* Application names: letters and single dashes, a letter first and last.
AppChars == {"a", "b", "-"}
AppNames ==
    {s \in UNION {[1..n -> AppChars] : n \in 1..MaxAppLen} :
        /\ s[1] # "-"
        /\ s[Len(s)] # "-"
        /\ \A i \in 1..(Len(s) - 1) : ~(s[i] = "-" /\ s[i + 1] = "-")}

\* Unit names: <application>/<number>.
UnitNames == {a \o <<"/">> \o <<n>> : a \in AppNames, n \in {"0", "1"}}

\* The tag of a unit name: "unit-" and the name with "/" replaced by "-".
UnitTag(name) == unitTagPrefix \o Replace(name, "/", "-")

\* The tags a Unit is made with: unit tags, and strings without the prefix.
Tags == {UnitTag(n) : n \in UnitNames} \cup UnitNames \cup {<<>>, <<"u", "n", "i", "t">>}

\* A Unit is made with some tag.
NameInit ==
    /\ pc = "new"
    /\ status = [id \in ValidIds |-> ActionPending]
    /\ calls = <<>>
    /\ hstart = 0
    /\ batch = <<>>
    /\ ractions = <<>>
    /\ ridx = 1
    /\ hres = Nil
    /\ herr = Nil
    /\ lastRet = "none"
    /\ nbatches = 0
    /\ faults = 0
    /\ crashes = 0
    /\ config = [Facade |-> TRUE, AgentTag |-> TRUE, HandleAction |-> TRUE]
    /\ aname = [id \in ValidIds |-> IF id = "a1" THEN JujuRunActionName ELSE "custom-noop"]
    /\ ex = ExIdle
    /\ dying = NotDying
    /\ unit \in {[tag |-> t, name |-> <<>>, called |-> FALSE] : t \in Tags}

\* u.Name() is called.
UnitName ==
    /\ ~unit.called
    /\ unit' = [unit EXCEPT !.name = Name(unit.tag), !.called = TRUE]
    /\ UNCHANGED <<pc, status, calls, hstart, batch, ractions, ridx, hres, herr, lastRet,
                   nbatches, faults, crashes, config, aname, ex, dying>>

NameNext == UnitName

NameSpec == NameInit /\ [][NameNext]_vars

\* C24: Name returns the unit's name. For a Unit whose tag is the tag of a unit
\* name <application>/<number>, Name returns that name, also when the application
\* name has a "-" in it; for a tag without the "unit-" prefix it returns "".
C24_NameRoundTrip ==
    unit.called =>
        /\ \A n \in UnitNames : unit.tag = UnitTag(n) => unit.name = n
        /\ ~HasPrefix(unit.tag, unitTagPrefix) => unit.name = <<>>

====
